---- MODULE Spec2Model ----
(***************************************************************************)
(* Model of resources/beam-on-kda/cdk/lib/workshop-infrastructure.ts: the  *)
(* WorkshopInfrastructure stack constructor.  The constructor is a         *)
(* straight-line program of construct declarations; every declaration is   *)
(* one action, taken in the order of the source text.  The state is the    *)
(* construct graph built so far (resources, outputs, ingress rules, policy *)
(* statements, subscriptions).  A second part models the deployment        *)
(* engine that creates the declared resources in an order respecting the   *)
(* references between them and deletes them in the reverse order.          *)
(***************************************************************************)
EXTENDS Integers, Sequences, FiniteSets, TLC

VARIABLES
    props,                        \* WorkshopInfrastructureProps of this run
    pc,                           \* next statement of the constructor
    status,                       \* running | failed | done | creating | deployed | deleting
    resources,                    \* construct id -> [type, refs, cfg]
    order,                        \* construct ids in declaration order
    outputs,                      \* CfnOutput id -> value
    ingress,                      \* ingress rules of security groups
    statements,                   \* policy statements attached so far
    subscriptions,                \* topic subscriptions
    addTimestamplambdaSource,     \* contents read at line 77
    stopApplicationlambdaSource,  \* contents read at line 92
    hasPrev,                      \* a previous construction has completed
    prev,                         \* its props, sources and graph
    live,                         \* resources that exist in the deployed stack
    objects,                      \* object versions stored in the bucket
    emptied,                      \* object versions removed by the bucket-emptying helper
    deleteFailed                  \* a bucket deletion was refused: bucket not empty

vars == <<props, pc, status, resources, order, outputs, ingress, statements,
          subscriptions, addTimestamplambdaSource, stopApplicationlambdaSource,
          hasPrev, prev, live, objects, emptied, deleteFailed>>

graphVars == <<resources, order, outputs, ingress, statements, subscriptions>>
deployVars == <<live, objects, emptied, deleteFailed>>

(***************************************************************************)
(* Bounds and input sets.                                                  *)
(***************************************************************************)
MaxObjects == 2

KinesisReplayVersions == {"release-0.1.0", "release-0.1.1"}
BeamApplicationVersions == {"release-0.2.0", "release-0.2.1"}
BeamApplicationJarFiles == {"beam-taxi-count-0.2.0.jar", "beam-taxi-count-0.2.1.jar"}
AppNames == {"beam-workshop", "taxi_app.v2"}

PropsSet ==
    [kinesisReplayVersion : KinesisReplayVersions,
     beamApplicationVersion : BeamApplicationVersions,
     beamApplicationJarFile : BeamApplicationJarFiles,
     appName : AppNames]

\* Contents the two lambda source files may have when they are read.
AddTimestampContents == {"exports.handler = enrich", "exports.handler = enrich2"}
StopApplicationContents == {"def empty_bucket(): stop", "def empty_bucket(): stop2"}

(***************************************************************************)
(* Construct ids, named after the constants of the constructor.            *)
(***************************************************************************)
bucket == "Bucket"
emptyBucket == "EmptyBucket"
vpc == "Vpc"
sg == "SecurityGroup"
sgSelfIngress == "SecurityGroup/from SecurityGroup:ALL TRAFFIC"
windowsDevEnvironment == "WindowsDevEnvironment"
beamConsumerBuildPipeline == "BeamConsumerBuildPipeline"
enrichEvents == "EnrichEventsLambda"
terminateAppLambda == "TerminateAppLambda"
terminateAppLambdaPolicy == "TerminateAppLambda/ServiceRole/DefaultPolicy"
topic == "ApplicationTerminatedTopic"
topicSubscription == "TerminateAppLambda/ApplicationTerminatedTopic"
kdaRole == "KdaRole"
kdaRolePolicy == "KdaRole/DefaultPolicy"
emrClusterRole == "EmrClusterRole"
emrInstanceRole == "EmrInstanceRole"
emrProfile == "EmrInstanceProfile"
cluster == "EmrCluster"

(***************************************************************************)
(* Identifiers of a declared construct are deploy-time tokens.             *)
(***************************************************************************)
Ref(id) == "${" \o id \o "}"
GetAtt(id, attr) == "${" \o id \o "." \o attr \o "}"

bucketName == Ref(bucket)
bucketArn == GetAtt(bucket, "Arn")
enrichEventsFunctionName == Ref(enrichEvents)
topicName == GetAtt(topic, "TopicName")
emrInstanceRoleName == Ref(emrInstanceRole)
emrClusterRoleName == Ref(emrClusterRole)
sgSecurityGroupName == Ref(sg)
sgSecurityGroupId == GetAtt(sg, "GroupId")
publicSubnet0Id == Ref(vpc \o "/publicSubnet1/Subnet")
emrProfileRef == Ref(emrProfile)

AwsPartition == "${AWS::Partition}"
AwsRegion == "${AWS::Region}"
AwsAccountId == "${AWS::AccountId}"

(***************************************************************************)
(* Values the constructor computes from its props (template literals).     *)
(***************************************************************************)
\* Mutant: the archive URL is templated with the replay tool's version.
ArchiveUrlOfReplayVersion(p) ==
    "https://github.com/aws-samples/amazon-kinesis-analytics-beam-taxi-consumer/archive/"
        \o p.kinesisReplayVersion \o ".zip"

ArchiveUrl(p) ==
    "https://github.com/aws-samples/amazon-kinesis-analytics-beam-taxi-consumer/archive/"
        \o p.beamApplicationVersion \o ".zip"

BeamConsumerJarPath(p) == "target/" \o p.beamApplicationJarFile

\* Mutant: the pattern is built from the bucket's ARN.
InputS3PatternOfArn == "s3://" \o bucketArn \o "/historic-trip-events/*/*/*/*/*"

InputS3Pattern == "s3://" \o bucketName \o "/historic-trip-events/*/*/*/*/*"

\* Mutant: the statement covers every application of the account.
StopApplicationArnAnyApplication(p) ==
    "arn:" \o AwsPartition \o ":kinesisanalytics:" \o AwsRegion \o ":"
        \o AwsAccountId \o ":application/*"

StopApplicationArn(p) ==
    "arn:" \o AwsPartition \o ":kinesisanalytics:" \o AwsRegion \o ":"
        \o AwsAccountId \o ":application/" \o p.appName

DurationSeconds(n) == n
DurationMinutes(n) == n * 60

(***************************************************************************)
(* The constructor's statements, in the order of the source text.          *)
(***************************************************************************)
\* Mutant: the instance profile is declared before the role it names.
ProgramProfileBeforeRole ==
    << "NewBucket", "NewEmptyBucket", "OutputS3Bucket", "OutputInputS3Pattern",
       "NewVpc", "NewSecurityGroup", "AddIngressAnyIpv4", "AddIngressSelf",
       "NewWindowsDevEnvironment", "NewBeamConsumerBuildPipeline",
       "OutputBeamConsumerJarPath", "ReadAddTimestampSource",
       "NewEnrichEventsLambda", "OutputFirehoseTransformationLambda",
       "ReadStopApplicationSource", "NewTerminateAppLambda",
       "TerminateAddToRolePolicy", "NewTopic", "TopicAddSubscription",
       "OutputApplicationTerminatedTopicName", "NewKdaRole",
       "KdaRoleAddToPolicy", "BucketGrantRead", "NewEmrClusterRole",
       "NewEmrInstanceProfile", "NewEmrInstanceRole", "NewEmrCluster" >>

Program ==
    << "NewBucket", "NewEmptyBucket", "OutputS3Bucket", "OutputInputS3Pattern",
       "NewVpc", "NewSecurityGroup", "AddIngressAnyIpv4", "AddIngressSelf",
       "NewWindowsDevEnvironment", "NewBeamConsumerBuildPipeline",
       "OutputBeamConsumerJarPath", "ReadAddTimestampSource",
       "NewEnrichEventsLambda", "OutputFirehoseTransformationLambda",
       "ReadStopApplicationSource", "NewTerminateAppLambda",
       "TerminateAddToRolePolicy", "NewTopic", "TopicAddSubscription",
       "OutputApplicationTerminatedTopicName", "NewKdaRole",
       "KdaRoleAddToPolicy", "BucketGrantRead", "NewEmrClusterRole",
       "NewEmrInstanceRole", "NewEmrInstanceProfile", "NewEmrCluster" >>

At(step) == status = "running" /\ pc <= Len(Program) /\ Program[pc] = step

Advance ==
    /\ pc' = pc + 1
    /\ status' = IF pc = Len(Program) THEN "done" ELSE "running"

Node(type, refs, cfg) == [type |-> type, refs |-> refs, cfg |-> cfg]

\* new <Construct>(this, id, ...): the construct joins the stack's scope.
Declare(id, node) ==
    /\ resources' = resources @@ (id :> node)
    /\ order' = Append(order, id)

\* new cdk.CfnOutput(this, id, { value })
DeclareOutput(id, value, refs) ==
    /\ outputs' = outputs @@ (id :> [value |-> value, refs |-> refs])
    /\ order' = Append(order, id)

runVars == <<props, hasPrev, prev>>
srcVars == <<addTimestamplambdaSource, stopApplicationlambdaSource>>

EmptyGraph ==
    [resources |-> <<>>, order |-> <<>>, outputs |-> <<>>, ingress |-> {},
     statements |-> {}, subscriptions |-> {}]

Snapshot ==
    [resources |-> resources, order |-> order, outputs |-> outputs,
     ingress |-> ingress, statements |-> statements,
     subscriptions |-> subscriptions]

(***************************************************************************)
(* The declarations, one action each.                                      *)
(***************************************************************************)
\* Mutant: the bucket gets an explicit name drawn from a process-wide counter.
NewBucketNamedByCounter ==
    /\ At("NewBucket")
    /\ Declare(bucket, Node("s3.Bucket", {},
                  {<<"versioned", "true">>, <<"removalPolicy", "DESTROY">>,
                   <<"bucketName", IF hasPrev THEN "workshop-2" ELSE "workshop-1">>}))
    /\ Advance
    /\ UNCHANGED <<outputs, ingress, statements, subscriptions, runVars, srcVars, deployVars>>

NewBucket ==
    /\ At("NewBucket")
    /\ Declare(bucket, Node("s3.Bucket", {},
                  {<<"versioned", "true">>, <<"removalPolicy", "DESTROY">>}))
    /\ Advance
    /\ UNCHANGED <<outputs, ingress, statements, subscriptions, runVars, srcVars, deployVars>>

\* Mutant: the bucket-emptying helper is not declared.
NewEmptyBucketOmitted ==
    /\ At("NewEmptyBucket")
    /\ Advance
    /\ UNCHANGED <<graphVars, runVars, srcVars, deployVars>>

NewEmptyBucket ==
    /\ At("NewEmptyBucket")
    /\ Declare(emptyBucket, Node("EmptyBucketOnDelete", {bucket},
                  {<<"bucket", bucketName>>}))
    /\ Advance
    /\ UNCHANGED <<outputs, ingress, statements, subscriptions, runVars, srcVars, deployVars>>

OutputS3Bucket ==
    /\ At("OutputS3Bucket")
    /\ DeclareOutput("S3Bucket", bucketName, {bucket})
    /\ Advance
    /\ UNCHANGED <<resources, ingress, statements, subscriptions, runVars, srcVars, deployVars>>

OutputInputS3Pattern ==
    /\ At("OutputInputS3Pattern")
    /\ DeclareOutput("InputS3Pattern", InputS3Pattern, {bucket})
    /\ Advance
    /\ UNCHANGED <<resources, ingress, statements, subscriptions, runVars, srcVars, deployVars>>

NewVpc ==
    /\ At("NewVpc")
    /\ Declare(vpc, Node("ec2.Vpc", {},
                  {<<"subnetConfiguration[0].name", "public">>,
                   <<"subnetConfiguration[0].subnetType", "PUBLIC">>}))
    /\ Advance
    /\ UNCHANGED <<outputs, ingress, statements, subscriptions, runVars, srcVars, deployVars>>

NewSecurityGroup ==
    /\ At("NewSecurityGroup")
    /\ Declare(sg, Node("ec2.SecurityGroup", {vpc}, {<<"vpc", Ref(vpc)>>}))
    /\ Advance
    /\ UNCHANGED <<outputs, ingress, statements, subscriptions, runVars, srcVars, deployVars>>

\* sg.addIngressRule(ec2.Peer.anyIpv4(), ec2.Port.tcp(3389)): a CIDR peer is
\* a rule in the group's own description.
AddIngressAnyIpv4 ==
    /\ At("AddIngressAnyIpv4")
    /\ ingress' = ingress \cup
           {[group |-> sg, peer |-> "0.0.0.0/0", port |-> "tcp:3389"]}
    /\ Advance
    /\ UNCHANGED <<resources, order, outputs, statements, subscriptions, runVars, srcVars, deployVars>>

\* Mutant: the rule from the group itself is written into the group's own
\* description, which then refers to itself.
AddIngressSelfInline ==
    /\ At("AddIngressSelf")
    /\ ingress' = ingress \cup
           {[group |-> sg, peer |-> sgSecurityGroupId, port |-> "ALL TRAFFIC"]}
    /\ resources' = [resources EXCEPT ![sg].refs = @ \cup {sg}]
    /\ Advance
    /\ UNCHANGED <<order, outputs, statements, subscriptions, runVars, srcVars, deployVars>>

\* sg.addIngressRule(sg, ec2.Port.allTraffic()): a security-group peer is a
\* rule resource of its own that refers to the group and to the peer.
AddIngressSelf ==
    /\ At("AddIngressSelf")
    /\ ingress' = ingress \cup
           {[group |-> sg, peer |-> sgSecurityGroupId, port |-> "ALL TRAFFIC"]}
    /\ Declare(sgSelfIngress, Node("ec2.CfnSecurityGroupIngress", {sg},
                  {<<"groupId", sgSecurityGroupId>>,
                   <<"sourceSecurityGroupId", sgSecurityGroupId>>,
                   <<"ipProtocol", "-1">>}))
    /\ Advance
    /\ UNCHANGED <<outputs, statements, subscriptions, runVars, srcVars, deployVars>>

NewWindowsDevEnvironment ==
    /\ At("NewWindowsDevEnvironment")
    /\ Declare(windowsDevEnvironment,
               Node("WindowsDevEnvironment", {vpc, sg, bucket},
                  {<<"kinesisReplayVersion", props.kinesisReplayVersion>>,
                   <<"beamApplicationVersion", props.beamApplicationVersion>>,
                   <<"beamApplicationJarFile", props.beamApplicationJarFile>>,
                   <<"appName", props.appName>>,
                   <<"vpc", Ref(vpc)>>, <<"sg", sgSecurityGroupId>>,
                   <<"bucket", bucketName>>}))
    /\ Advance
    /\ UNCHANGED <<outputs, ingress, statements, subscriptions, runVars, srcVars, deployVars>>

NewBeamConsumerBuildPipeline ==
    /\ At("NewBeamConsumerBuildPipeline")
    /\ Declare(beamConsumerBuildPipeline,
               Node("GithubBuildPipeline", {bucket},
                  {<<"url", ArchiveUrl(props)>>, <<"bucket", bucketName>>,
                   <<"extract", "true">>}))
    /\ Advance
    /\ UNCHANGED <<outputs, ingress, statements, subscriptions, runVars, srcVars, deployVars>>

OutputBeamConsumerJarPath ==
    /\ At("OutputBeamConsumerJarPath")
    /\ DeclareOutput("BeamConsumerJarPath", BeamConsumerJarPath(props), {})
    /\ Advance
    /\ UNCHANGED <<resources, ingress, statements, subscriptions, runVars, srcVars, deployVars>>

\* fs.readFileSync("lambda/add-approximate-arrival-time.js").toString():
\* the contents, or an exception when the file is missing.
ReadAddTimestampSource ==
    /\ At("ReadAddTimestampSource")
    /\ \/ /\ \E c \in AddTimestampContents : addTimestamplambdaSource' = c
          /\ Advance
       \/ /\ status' = "failed"
          /\ UNCHANGED <<pc, addTimestamplambdaSource>>
    /\ UNCHANGED <<graphVars, runVars, stopApplicationlambdaSource, deployVars>>

NewEnrichEventsLambda ==
    /\ At("NewEnrichEventsLambda")
    /\ Declare(enrichEvents, Node("lambda.Function", {},
                  {<<"runtime", "nodejs12.x">>,
                   <<"code", addTimestamplambdaSource>>,
                   <<"timeout", ToString(DurationSeconds(60))>>,
                   <<"handler", "index.handler">>}))
    /\ Advance
    /\ UNCHANGED <<outputs, ingress, statements, subscriptions, runVars, srcVars, deployVars>>

OutputFirehoseTransformationLambda ==
    /\ At("OutputFirehoseTransformationLambda")
    /\ DeclareOutput("FirehoseTransformationLambda", enrichEventsFunctionName,
                     {enrichEvents})
    /\ Advance
    /\ UNCHANGED <<resources, ingress, statements, subscriptions, runVars, srcVars, deployVars>>

ReadStopApplicationSource ==
    /\ At("ReadStopApplicationSource")
    /\ \/ /\ \E c \in StopApplicationContents : stopApplicationlambdaSource' = c
          /\ Advance
       \/ /\ status' = "failed"
          /\ UNCHANGED <<pc, stopApplicationlambdaSource>>
    /\ UNCHANGED <<graphVars, runVars, addTimestamplambdaSource, deployVars>>

NewTerminateAppLambda ==
    /\ At("NewTerminateAppLambda")
    /\ Declare(terminateAppLambda, Node("lambda.Function", {},
                  {<<"runtime", "python3.7">>,
                   <<"timeout", ToString(DurationMinutes(15))>>,
                   <<"code", stopApplicationlambdaSource>>,
                   <<"handler", "index.empty_bucket">>,
                   <<"memorySize", "512">>,
                   <<"environment.application_name", props.appName>>}))
    /\ Advance
    /\ UNCHANGED <<outputs, ingress, statements, subscriptions, runVars, srcVars, deployVars>>

\* terminateAppLambda.addToRolePolicy(new iam.PolicyStatement({...}))
TerminateAddToRolePolicy ==
    /\ At("TerminateAddToRolePolicy")
    /\ statements' = statements \cup
           {[principal |-> terminateAppLambda,
             actions |-> {"kinesisanalytics:StopApplication"},
             resources |-> {StopApplicationArn(props)}]}
    /\ Declare(terminateAppLambdaPolicy,
               Node("iam.Policy", {terminateAppLambda}, {}))
    /\ Advance
    /\ UNCHANGED <<outputs, ingress, subscriptions, runVars, srcVars, deployVars>>

NewTopic ==
    /\ At("NewTopic")
    /\ Declare(topic, Node("sns.Topic", {}, {}))
    /\ Advance
    /\ UNCHANGED <<outputs, ingress, statements, subscriptions, runVars, srcVars, deployVars>>

\* topic.addSubscription(new subs.LambdaSubscription(terminateAppLambda))
TopicAddSubscription ==
    /\ At("TopicAddSubscription")
    /\ subscriptions' = subscriptions \cup
           {[topic |-> topic, protocol |-> "lambda", endpoint |-> terminateAppLambda]}
    /\ Declare(topicSubscription,
               Node("sns.Subscription", {topic, terminateAppLambda}, {}))
    /\ Advance
    /\ UNCHANGED <<outputs, ingress, statements, runVars, srcVars, deployVars>>

\* Mutant: the topic output carries the termination function's name.
OutputTopicNameOfFunction ==
    /\ At("OutputApplicationTerminatedTopicName")
    /\ DeclareOutput("ApplicationTerminatedTopicName", Ref(terminateAppLambda),
                     {terminateAppLambda})
    /\ Advance
    /\ UNCHANGED <<resources, ingress, statements, subscriptions, runVars, srcVars, deployVars>>

OutputApplicationTerminatedTopicName ==
    /\ At("OutputApplicationTerminatedTopicName")
    /\ DeclareOutput("ApplicationTerminatedTopicName", topicName, {topic})
    /\ Advance
    /\ UNCHANGED <<resources, ingress, statements, subscriptions, runVars, srcVars, deployVars>>

\* Mutant: the KdaRole declaration is left out.
NewKdaRoleOmitted ==
    /\ At("NewKdaRole")
    /\ Advance
    /\ UNCHANGED <<graphVars, runVars, srcVars, deployVars>>

NewKdaRole ==
    /\ At("NewKdaRole")
    /\ Declare(kdaRole, Node("iam.Role", {},
                  {<<"assumedBy", "kinesisanalytics.amazonaws.com">>}))
    /\ Advance
    /\ UNCHANGED <<outputs, ingress, statements, subscriptions, runVars, srcVars, deployVars>>

\* The policy resource that carries a principal's statements: declared with
\* the first statement, extended by the later ones.
AttachToPolicy(policy, principal, refs) ==
    IF policy \in DOMAIN resources
    THEN /\ resources' = [resources EXCEPT ![policy].refs = @ \cup refs]
         /\ UNCHANGED order
    ELSE Declare(policy, Node("iam.Policy", {principal} \cup refs, {}))

KdaRoleAddToPolicy ==
    /\ At("KdaRoleAddToPolicy")
    /\ statements' = statements \cup
           {[principal |-> kdaRole,
             actions |-> {"logs:Describe*", "logs:PutLogEvents", "kinesis:List*",
                          "kinesis:Describe*", "kinesis:Get*",
                          "kinesis:SubscribeToShard"},
             resources |-> {"*"}]}
    /\ AttachToPolicy(kdaRolePolicy, kdaRole, {})
    /\ Advance
    /\ UNCHANGED <<outputs, ingress, subscriptions, runVars, srcVars, deployVars>>

\* bucket.grantRead(kdaRole)
BucketGrantRead ==
    /\ At("BucketGrantRead")
    /\ statements' = statements \cup
           {[principal |-> kdaRole,
             actions |-> {"s3:GetObject*", "s3:GetBucket*", "s3:List*"},
             resources |-> {bucketArn, bucketArn \o "/*"}]}
    /\ AttachToPolicy(kdaRolePolicy, kdaRole, {bucket})
    /\ Advance
    /\ UNCHANGED <<outputs, ingress, subscriptions, runVars, srcVars, deployVars>>

NewEmrClusterRole ==
    /\ At("NewEmrClusterRole")
    /\ Declare(emrClusterRole, Node("iam.Role", {},
                  {<<"assumedBy", "elasticmapreduce.amazonaws.com">>,
                   <<"managedPolicies[0]", "service-role/AmazonElasticMapReduceRole">>}))
    /\ Advance
    /\ UNCHANGED <<outputs, ingress, statements, subscriptions, runVars, srcVars, deployVars>>

NewEmrInstanceRole ==
    /\ At("NewEmrInstanceRole")
    /\ Declare(emrInstanceRole, Node("iam.Role", {},
                  {<<"assumedBy", "ec2.amazonaws.com">>,
                   <<"managedPolicies[0]", "service-role/AmazonElasticMapReduceforEC2Role">>,
                   <<"managedPolicies[1]", "AmazonSSMManagedInstanceCore">>}))
    /\ Advance
    /\ UNCHANGED <<outputs, ingress, statements, subscriptions, runVars, srcVars, deployVars>>

NewEmrInstanceProfile ==
    /\ At("NewEmrInstanceProfile")
    /\ Declare(emrProfile, Node("iam.CfnInstanceProfile", {emrInstanceRole},
                  {<<"roles[0]", emrInstanceRoleName>>}))
    /\ Advance
    /\ UNCHANGED <<outputs, ingress, statements, subscriptions, runVars, srcVars, deployVars>>

EmrClusterNode ==
    Node("emr.CfnCluster", {sg, vpc, emrClusterRole, emrProfile},
                  {<<"name", "beam-workshop">>,
                   <<"applications[0].name", "Hadoop">>,
                   <<"applications[1].name", "Ganglia">>,
                   <<"applications[2].name", "Flink">>,
                   <<"applications[3].name", "ZooKeeper">>,
                   <<"instances.masterInstanceGroup.instanceCount", "1">>,
                   <<"instances.masterInstanceGroup.instanceType", "c5n.xlarge">>,
                   <<"instances.masterInstanceGroup.name", "Master">>,
                   <<"instances.coreInstanceGroup.instanceCount", "2">>,
                   <<"instances.coreInstanceGroup.instanceType", "r5.xlarge">>,
                   <<"instances.coreInstanceGroup.name", "Core">>,
                   <<"instances.additionalMasterSecurityGroups[0]", sgSecurityGroupName>>,
                   <<"instances.ec2SubnetId", publicSubnet0Id>>,
                   <<"serviceRole", emrClusterRoleName>>,
                   <<"releaseLabel", "emr-5.27.0">>,
                   <<"visibleToAllUsers", "true">>,
                   <<"jobFlowRole", emrProfileRef>>})

\* Mutant: the cluster declaration also opens SSH on the security group.
NewEmrClusterOpeningSsh ==
    /\ At("NewEmrCluster")
    /\ Declare(cluster, EmrClusterNode)
    /\ ingress' = ingress \cup
           {[group |-> sg, peer |-> "0.0.0.0/0", port |-> "tcp:22"]}
    /\ Advance
    /\ UNCHANGED <<outputs, statements, subscriptions, runVars, srcVars, deployVars>>

NewEmrCluster ==
    /\ At("NewEmrCluster")
    /\ Declare(cluster, EmrClusterNode)
    /\ Advance
    /\ UNCHANGED <<outputs, ingress, statements, subscriptions, runVars, srcVars, deployVars>>

(***************************************************************************)
(* new WorkshopInfrastructure(scope, id, props), again: a fresh graph for  *)
(* the new props; the finished graph of the run before is kept aside.      *)
(***************************************************************************)
NoPrev ==
    [props |-> [kinesisReplayVersion |-> "", beamApplicationVersion |-> "",
                beamApplicationJarFile |-> "", appName |-> ""],
     addTimestamplambdaSource |-> "", stopApplicationlambdaSource |-> "",
     graph |-> EmptyGraph]

Resynthesize ==
    /\ status \in {"done", "failed"}
    /\ \E p \in PropsSet : props' = p
    /\ pc' = 1
    /\ status' = "running"
    /\ resources' = <<>>
    /\ order' = <<>>
    /\ outputs' = <<>>
    /\ ingress' = {}
    /\ statements' = {}
    /\ subscriptions' = {}
    /\ addTimestamplambdaSource' = ""
    /\ stopApplicationlambdaSource' = ""
    /\ hasPrev' = (hasPrev \/ status = "done")
    /\ prev' = IF status = "done"
               THEN [props |-> props,
                     addTimestamplambdaSource |-> addTimestamplambdaSource,
                     stopApplicationlambdaSource |-> stopApplicationlambdaSource,
                     graph |-> Snapshot]
               ELSE prev
    /\ UNCHANGED deployVars

Constructor(p) ==
    /\ props = p
    /\ pc = 1
    /\ status = "running"
    /\ resources = <<>>
    /\ order = <<>>
    /\ outputs = <<>>
    /\ ingress = {}
    /\ statements = {}
    /\ subscriptions = {}
    /\ addTimestamplambdaSource = ""
    /\ stopApplicationlambdaSource = ""
    /\ hasPrev = FALSE
    /\ prev = NoPrev
    /\ live = {}
    /\ objects = 0
    /\ emptied = 0
    /\ deleteFailed = FALSE

Init == \E p \in PropsSet : Constructor(p)

Synthesize ==
    \/ NewBucket
    \/ NewEmptyBucket
    \/ OutputS3Bucket
    \/ OutputInputS3Pattern
    \/ NewVpc
    \/ NewSecurityGroup
    \/ AddIngressAnyIpv4
    \/ AddIngressSelf
    \/ NewWindowsDevEnvironment
    \/ NewBeamConsumerBuildPipeline
    \/ OutputBeamConsumerJarPath
    \/ ReadAddTimestampSource
    \/ NewEnrichEventsLambda
    \/ OutputFirehoseTransformationLambda
    \/ ReadStopApplicationSource
    \/ NewTerminateAppLambda
    \/ TerminateAddToRolePolicy
    \/ NewTopic
    \/ TopicAddSubscription
    \/ OutputApplicationTerminatedTopicName
    \/ NewKdaRole
    \/ KdaRoleAddToPolicy
    \/ BucketGrantRead
    \/ NewEmrClusterRole
    \/ NewEmrInstanceRole
    \/ NewEmrInstanceProfile
    \/ NewEmrCluster

Next == Synthesize \/ Resynthesize

Spec == Init /\ [][Next]_vars

(***************************************************************************)
(* Reading the graph.                                                      *)
(***************************************************************************)
CountType(t) == Cardinality({id \in DOMAIN resources : resources[id].type = t})

CfgValues(id, key) ==
    IF id \in DOMAIN resources
    THEN {kv[2] : kv \in {x \in resources[id].cfg : x[1] = key}}
    ELSE {}

OutputValues(name) ==
    IF name \in DOMAIN outputs THEN {outputs[name].value} ELSE {}

Occurrences(seq, x) == Cardinality({i \in 1..Len(seq) : seq[i] = x})

\* Statements of the constructor that have been executed in this run.
Executed(step) == \E i \in 1..(pc - 1) : i <= Len(Program) /\ Program[i] = step

\* Greatest index of character ch in string str, 0 when there is none.
LastIndexOf(str, ch) ==
    LET hits == {i \in 1..Len(str) : SubSeq(str, i, i) = ch}
    IN  IF hits = {} THEN 0 ELSE CHOOSE i \in hits : \A j \in hits : j <= i

LastSegment(str) == SubSeq(str, LastIndexOf(str, "/") + 1, Len(str))

\* The resource type of an ARN arn:partition:service:region:account:type/name
ArnResourceType(str) ==
    LET head == SubSeq(str, 1, LastIndexOf(str, "/") - 1)
    IN  SubSeq(head, LastIndexOf(head, ":") + 1, Len(head))

Contains(str, part) ==
    \E i \in 1..(Len(str) - Len(part) + 1) : SubSeq(str, i, i + Len(part) - 1) = part

DifferOnlyInBeamApplicationVersion(p, q) ==
    /\ p.beamApplicationVersion # q.beamApplicationVersion
    /\ p.kinesisReplayVersion = q.kinesisReplayVersion
    /\ p.beamApplicationJarFile = q.beamApplicationJarFile
    /\ p.appName = q.appName

PrevCfgValues(id, key) ==
    IF id \in DOMAIN prev.graph.resources
    THEN {kv[2] : kv \in {x \in prev.graph.resources[id].cfg : x[1] = key}}
    ELSE {}

PrevOutputValues(name) ==
    IF name \in DOMAIN prev.graph.outputs
    THEN {prev.graph.outputs[name].value}
    ELSE {}

C2_VersionChangesUrlAndJarPath ==
    (hasPrev /\ status = "done"
        /\ DifferOnlyInBeamApplicationVersion(prev.props, props)) =>
        /\ CfgValues(beamConsumerBuildPipeline, "url")
               # PrevCfgValues(beamConsumerBuildPipeline, "url")
        /\ OutputValues("BeamConsumerJarPath") # PrevOutputValues("BeamConsumerJarPath")
        /\ \A u \in CfgValues(beamConsumerBuildPipeline, "url") :
               Contains(u, props.beamApplicationVersion)
        /\ \A j \in OutputValues("BeamConsumerJarPath") :
               Contains(j, props.beamApplicationVersion)

\* C2, amended: when two bundles differ only in beamApplicationVersion, the
\* archive URL changes (it is .../archive/<beamApplicationVersion>.zip) and
\* the BeamConsumerJarPath output does not: it is
\* target/<beamApplicationJarFile>, without the version.
C2_VersionChangesUrlOnly ==
    (hasPrev /\ status = "done"
        /\ DifferOnlyInBeamApplicationVersion(prev.props, props)) =>
        /\ CfgValues(beamConsumerBuildPipeline, "url")
               # PrevCfgValues(beamConsumerBuildPipeline, "url")
        /\ CfgValues(beamConsumerBuildPipeline, "url") =
               {"https://github.com/aws-samples/amazon-kinesis-analytics-beam-taxi-consumer/archive/"
                    \o props.beamApplicationVersion \o ".zip"}
        /\ PrevCfgValues(beamConsumerBuildPipeline, "url") =
               {"https://github.com/aws-samples/amazon-kinesis-analytics-beam-taxi-consumer/archive/"
                    \o prev.props.beamApplicationVersion \o ".zip"}
        /\ OutputValues("BeamConsumerJarPath") = PrevOutputValues("BeamConsumerJarPath")
        /\ OutputValues("BeamConsumerJarPath") = {"target/" \o props.beamApplicationJarFile}

C2_Witness ==
    /\ hasPrev
    /\ status = "done"
    /\ DifferOnlyInBeamApplicationVersion(prev.props, props)
    /\ beamConsumerBuildPipeline \in DOMAIN prev.graph.resources
    /\ "BeamConsumerJarPath" \in DOMAIN outputs

(***************************************************************************)
(* C3.  The statement attached to TerminateAppLambda grants exactly one    *)
(* action, kinesisanalytics:StopApplication, on exactly one resource, an   *)
(* application ARN whose final segment is the configured appName, and the  *)
(* function's application_name environment variable is that appName.       *)
(***************************************************************************)
C3_TerminatePolicyScopedToApp ==
    Executed("TerminateAddToRolePolicy") =>
        LET granted == {st \in statements : st.principal = terminateAppLambda}
        IN  /\ Cardinality(granted) = 1
            /\ \A st \in granted :
                   /\ st.actions = {"kinesisanalytics:StopApplication"}
                   /\ Cardinality(st.resources) = 1
                   /\ \A r \in st.resources :
                          /\ SubSeq(r, 1, 4) = "arn:"
                          /\ Contains(r, ":kinesisanalytics:")
                          /\ ArnResourceType(r) = "application"
                          /\ LastSegment(r) = props.appName
            /\ CfgValues(terminateAppLambda, "environment.application_name")
                   = {props.appName}

C3_Witness ==
    /\ status = "done"
    /\ props.appName = "taxi_app.v2"
    /\ \E st \in statements :
           st.principal = terminateAppLambda /\ st.resources # {}

(***************************************************************************)
(* C4.  Once both addIngressRule calls have run, the security group's      *)
(* ingress rules are exactly TCP 3389 from 0.0.0.0/0 and all traffic from  *)
(* the group itself, and no later declaration changes them.                *)
(***************************************************************************)
C4_IngressExactlyTwoRules ==
    (Executed("AddIngressAnyIpv4") /\ Executed("AddIngressSelf")) =>
        {r \in ingress : r.group = sg} = ingress
        /\ ingress =
            {[group |-> "SecurityGroup", peer |-> "0.0.0.0/0", port |-> "tcp:3389"],
             [group |-> "SecurityGroup", peer |-> "${SecurityGroup.GroupId}",
              port |-> "ALL TRAFFIC"]}

C4_Witness ==
    /\ status = "done"
    /\ cluster \in DOMAIN resources
    /\ windowsDevEnvironment \in DOMAIN resources
    /\ Cardinality(ingress) = 2

(***************************************************************************)
(* C5.  The InputS3Pattern output is                                       *)
(* s3://<bucket-name>/historic-trip-events/*/*/*/*/* for the name of the   *)
(* bucket declared in the same construction, the name the S3Bucket output  *)
(* exposes.                                                                *)
(***************************************************************************)
C5_InputPatternOfOwnBucket ==
    status = "done" =>
        \E b \in DOMAIN resources :
            /\ resources[b].type = "s3.Bucket"
            /\ OutputValues("S3Bucket") = {"${" \o b \o "}"}
            /\ OutputValues("InputS3Pattern") =
                   {"s3://" \o outputs["S3Bucket"].value
                        \o "/historic-trip-events/*/*/*/*/*"}

C5_Witness ==
    /\ status = "done"
    /\ "InputS3Pattern" \in DOMAIN outputs
    /\ "S3Bucket" \in DOMAIN outputs
    /\ hasPrev

OutputsCarrying(identifier) ==
    {o \in DOMAIN outputs : outputs[o].value = identifier}

(***************************************************************************)
(* C6.  Original statement: the bucket, each of the two functions and the  *)
(* topic have exactly one output whose value is the resource's identifier, *)
(* and no output name is declared twice.                                   *)
(***************************************************************************)
C6_EveryFunctionExposedOnce ==
    status = "done" =>
        /\ Cardinality(OutputsCarrying("${Bucket}")) = 1
        /\ Cardinality(OutputsCarrying("${EnrichEventsLambda}")) = 1
        /\ Cardinality(OutputsCarrying("${TerminateAppLambda}")) = 1
        /\ Cardinality(OutputsCarrying("${ApplicationTerminatedTopic.TopicName}")) = 1
        /\ \A o \in DOMAIN outputs : Occurrences(order, o) = 1

\* C6, amended: the bucket, the enrichment function and the topic have
\* exactly one output whose value is the resource's identifier (S3Bucket,
\* FirehoseTransformationLambda, ApplicationTerminatedTopicName); the
\* termination function has none; no output name is declared twice.
C6_ExposedOnceExceptTerminate ==
    status = "done" =>
        /\ OutputsCarrying("${Bucket}") = {"S3Bucket"}
        /\ OutputsCarrying("${EnrichEventsLambda}") = {"FirehoseTransformationLambda"}
        /\ OutputsCarrying("${TerminateAppLambda}") = {}
        /\ \A o \in DOMAIN outputs : terminateAppLambda \notin outputs[o].refs
        /\ OutputsCarrying("${ApplicationTerminatedTopic.TopicName}")
               = {"ApplicationTerminatedTopicName"}
        /\ \A o \in DOMAIN outputs : Occurrences(order, o) = 1

C6_Witness ==
    /\ status = "done"
    /\ terminateAppLambda \in DOMAIN resources
    /\ Cardinality(DOMAIN outputs) = 5

SameInputsAsPrev ==
    /\ hasPrev
    /\ prev.props = props
    /\ prev.addTimestamplambdaSource = addTimestamplambdaSource
    /\ prev.stopApplicationlambdaSource = stopApplicationlambdaSource

DeployProps ==
    [kinesisReplayVersion |-> "release-0.1.0",
     beamApplicationVersion |-> "release-0.2.0",
     beamApplicationJarFile |-> "beam-taxi-count-0.2.0.jar",
     appName |-> "beam-workshop"]

RefsOf(id) ==
    IF id \in DOMAIN resources THEN resources[id].refs
    ELSE IF id \in DOMAIN outputs THEN outputs[id].refs
    ELSE {}

StartDeploy ==
    /\ status = "done"
    /\ status' = "creating"
    /\ UNCHANGED <<props, pc, graphVars, srcVars, hasPrev, prev, deployVars>>

\* The build pipeline fetches the archive and extracts it into the bucket
\* while it is being created.
ObjectsAfterCreate(r) ==
    IF resources[r].type = "GithubBuildPipeline" /\ objects < MaxObjects
    THEN objects + 1
    ELSE objects

Create(r) ==
    /\ status = "creating"
    /\ r \in DOMAIN resources
    /\ r \notin live
    /\ resources[r].refs \subseteq live
    /\ live' = live \cup {r}
    /\ objects' = ObjectsAfterCreate(r)
    /\ UNCHANGED <<props, pc, status, graphVars, srcVars, hasPrev, prev, emptied, deleteFailed>>

CreateAny == \E r \in DOMAIN resources : Create(r)

FinishDeploy ==
    /\ status = "creating"
    /\ live = DOMAIN resources
    /\ status' = "deployed"
    /\ UNCHANGED <<props, pc, graphVars, srcVars, hasPrev, prev, deployVars>>

\* While the stack is in use, data lands in the bucket.
PutObject ==
    /\ status = "deployed"
    /\ bucket \in live
    /\ objects < MaxObjects
    /\ objects' = objects + 1
    /\ UNCHANGED <<props, pc, status, graphVars, srcVars, hasPrev, prev, live, emptied, deleteFailed>>

StartDelete ==
    /\ status = "deployed"
    /\ status' = "deleting"
    /\ UNCHANGED <<props, pc, graphVars, srcVars, hasPrev, prev, deployVars>>

\* The bucket-emptying helper, on its own deletion, removes every object
\* version of the bucket it was given.
EmptiesBucket(r) ==
    /\ resources[r].type = "EmptyBucketOnDelete"
    /\ <<"bucket", bucketName>> \in resources[r].cfg

\* A bucket with removalPolicy DESTROY is deleted with the stack, and the
\* deletion of a bucket that still holds objects is refused.
BucketDeletionRefused(r) ==
    /\ resources[r].type = "s3.Bucket"
    /\ <<"removalPolicy", "DESTROY">> \in resources[r].cfg
    /\ objects > 0

Delete(r) ==
    /\ status = "deleting"
    /\ ~deleteFailed
    /\ r \in live
    /\ \A d \in live \ {r} : r \notin resources[d].refs
    /\ live' = IF BucketDeletionRefused(r) THEN live ELSE live \ {r}
    /\ deleteFailed' = BucketDeletionRefused(r)
    /\ objects' = IF EmptiesBucket(r) THEN 0 ELSE objects
    /\ emptied' = IF EmptiesBucket(r) THEN emptied + objects ELSE emptied
    /\ UNCHANGED <<props, pc, status, graphVars, srcVars, hasPrev, prev>>

DeleteAny == \E r \in DOMAIN resources : Delete(r)

InitDeploy == Constructor(DeployProps)

NextDeploy ==
    \/ Synthesize
    \/ StartDeploy
    \/ CreateAny
    \/ FinishDeploy
    \/ PutObject
    \/ StartDelete
    \/ DeleteAny

DeploySpec == InitDeploy /\ [][NextDeploy]_vars /\ WF_vars(CreateAny)

(***************************************************************************)
(* C8.  On stack deletion in reverse dependency order the bucket-emptying  *)
(* helper removes all objects before the bucket is deleted: the bucket is  *)
(* never deleted while non-empty and its deletion is never refused.        *)
(***************************************************************************)
C8_BucketEmptiedBeforeDeletion ==
    /\ ~deleteFailed
    /\ (status = "deleting" /\ bucket \notin live) =>
           (objects = 0 /\ emptyBucket \notin live)

C8_Witness ==
    /\ status = "deleting"
    /\ bucket \notin live
    /\ emptied = MaxObjects
    /\ emptied > 1

ListedCreateAfter ==
    { <<"Bucket", "EmptyBucket">>, <<"Bucket", "S3Bucket">>,
      <<"Bucket", "InputS3Pattern">>, <<"Bucket", "WindowsDevEnvironment">>,
      <<"Bucket", "BeamConsumerBuildPipeline">>, <<"Bucket", "KdaRole/DefaultPolicy">>,
      <<"Vpc", "SecurityGroup">>, <<"Vpc", "WindowsDevEnvironment">>,
      <<"SecurityGroup", "WindowsDevEnvironment">>, <<"Vpc", "EmrCluster">>,
      <<"SecurityGroup", "EmrCluster">>,
      <<"TerminateAppLambda", "TerminateAppLambda/ApplicationTerminatedTopic">>,
      <<"EmrInstanceRole", "EmrInstanceProfile">>,
      <<"EmrInstanceProfile", "EmrCluster">>, <<"EmrClusterRole", "EmrCluster">> }

DeclaredBefore(a, b) ==
    \E i, j \in 1..Len(order) : i < j /\ order[i] = a /\ order[j] = b

(***************************************************************************)
(* C9.  Every construct that takes another construct's identifier is       *)
(* declared after it (the listed pairs among them), and in a deployment    *)
(* that respects these edges no resource exists without the resources it   *)
(* refers to.                                                              *)
(***************************************************************************)
C9_DeclaredAndCreatedAfterReferences ==
    /\ status \in {"running", "failed", "done"} =>
           \A i \in 1..Len(order) :
               \A r \in RefsOf(order[i]) : \E j \in 1..(i - 1) : order[j] = r
    /\ status = "done" =>
           \A e \in ListedCreateAfter :
               e[1] \in RefsOf(e[2]) /\ DeclaredBefore(e[1], e[2])
    /\ \A r \in live : resources[r].refs \subseteq live

C9_Witness ==
    /\ status = "creating"
    /\ emrProfile \in live
    /\ cluster \notin live
    /\ windowsDevEnvironment \in live
    /\ sgSelfIngress \notin live

RECURSIVE ReachableWithin(_, _)
ReachableWithin(from, n) ==
    IF n = 0 THEN from
    ELSE ReachableWithin(from \cup UNION {RefsOf(x) : x \in from}, n - 1)

Acyclic ==
    \A id \in DOMAIN resources :
        id \notin ReachableWithin(RefsOf(id), Cardinality(DOMAIN resources))

(***************************************************************************)
(* C10.  The graph of references is acyclic, the security group's ingress  *)
(* rule from itself included, so an engine that keeps creating resources   *)
(* whose references all exist creates every declared resource.             *)
(***************************************************************************)
C10_AcyclicAndAllCreated ==
    /\ [](status = "done" => Acyclic)
    /\ (status = "creating") ~> (status = "creating" /\ live = DOMAIN resources)

C10_Witness ==
    /\ status = "deployed"
    /\ live = DOMAIN resources
    /\ sgSelfIngress \in live
    /\ \E r \in ingress : r.group = sg /\ r.peer = sgSecurityGroupId

====
